---- MODULE Spec2Model ----
(***************************************************************************)
(* Control-flow recovery of macdonaldo/bril (src/src/object.rs):           *)
(* Function::get_basic_blocks partitions a function's instrs into basic    *)
(* blocks and Function::get_edges builds the successor / predecessor maps. *)
(* Both loops are modelled one iteration per step, as main.rs runs them:   *)
(* get_basic_blocks first, get_edges on its result.                        *)
(***************************************************************************)
EXTENDS Naturals, Sequences, FiniteSets, TLC

VARIABLES name, instrs, pc, i, bb, basic_blocks, j, successors, predecessors

vars == <<name, instrs, pc, i, bb, basic_blocks, j, successors, predecessors>>

\* ------------------------------------------------------------------ bounds
\* longest function body (number of Code items) explored
MaxLen == 4
\* longest hand-built block list given to get_edges directly
MaxBlocks == 3

\* ------------------------------------------------------------ IR data model
\* Code::Label { label }
Label(l) == [kind |-> "Label", op |-> "label", label |-> l, labels |-> <<>>]
\* Code::Instruction(Instruction::Effect { op, labels, .. })
Effect(o, ls) == [kind |-> "Effect", op |-> o, label |-> "", labels |-> ls]
\* Code::Instruction(Instruction::Value { op, labels, .. })
Value(o, ls) == [kind |-> "Value", op |-> o, label |-> "", labels |-> ls]

\* Function.name
FnNames == {"f"}

\* label texts: the implicit entry name, an ordinary name, a name of the
\* synthesized form
LabelTexts == {"entry", "a", "f_bb1"}

Labels == {Label(l) : l \in LabelTexts}

Instructions ==
    { Effect("nop", <<>>),
      Value("add", <<>>),
      Effect("jmp", <<"a">>),
      Effect("br", <<"a", "x">>),
      Effect("ret", <<>>),
      Effect("ret", <<"a">>) }

\* Function.instrs: Vec<Code>
Codes == Labels \cup Instructions

SeqsUpTo(S, n) == UNION {[1..k -> S] : k \in 0..n}

\* ------------------------------------------------------------- impl Code
is_label(code) == code.kind = "Label"

get_label(code) == IF code.kind = "Label" THEN code.label ELSE ""

is_terminator(code) ==
    IF code.kind = "Effect"
    THEN code.op \in {"br", "jmp", "ret"}
    ELSE FALSE

\* ------------------------------------------------- get_basic_blocks pieces
\* BasicBlock { label, instrs }
BasicBlock(l, is) == [label |-> l, instrs |-> is]

\* iter.peek().is_none() after iter.next() returned item p of s
peek_is_none(s, p) == p = Len(s)

\* match iter.peek() { Some(next) if next.is_label() => true, _ => false }
next_is_label(s, p) == IF p < Len(s) THEN is_label(s[p + 1]) ELSE FALSE

EndOfBlockNoLast(s, p) == next_is_label(s, p) \/ is_terminator(s[p])

EndOfBlockNoTerminator(s, p) == peek_is_none(s, p) \/ next_is_label(s, p)

\* "this is the end of the current basic block"
EndOfBlock(s, p) ==
    peek_is_none(s, p) \/ next_is_label(s, p) \/ is_terminator(s[p])

\* "create a label for the next basic block if missing"
LabelMissing(s, p) == is_terminator(s[p]) /\ ~next_is_label(s, p)

SynthLabelBeforePush(fname, n) == fname \o "_bb" \o ToString(n - 1)

\* format!("{}_bb{}", &self.name, basic_blocks.len())
SynthLabel(fname, n) == fname \o "_bb" \o ToString(n)

ReturnWithPending(blocks, pending) ==
    IF pending.instrs = <<>> THEN Append(blocks, pending) ELSE blocks

\* the value get_basic_blocks returns: the pushed blocks, not the pending one
ReturnedBlocks(blocks, pending) == blocks

\* ------------------------------------------------------- get_edges pieces
EmptyMap == [k \in {} |-> <<>>]

\* HashMap::get with a missing key read as the empty list
Get(m, k) == IF k \in DOMAIN m THEN m[k] ELSE <<>>

\* HashMap::insert: replaces the value of an existing key
Insert(m, k, v) == [x \in DOMAIN m \cup {k} |-> IF x = k THEN v ELSE m[x]]

\* predecessors.entry(label).or_insert(vec![]).push(current_label)
EntryPush(m, k, v) == Insert(m, k, Append(Get(m, k), v))

RECURSIVE PushAll(_, _, _)
\* for &label in &referenced_labels { ...push(current_label) }
PushAll(m, ls, v) ==
    IF ls = <<>> THEN m ELSE PushAll(EntryPush(m, Head(ls), v), Tail(ls), v)

RECURSIVE Dedup(_)
Dedup(ls) ==
    IF ls = <<>> THEN <<>>
    ELSE <<Head(ls)>> \o SelectSeq(Dedup(Tail(ls)), LAMBDA x : x # Head(ls))

ReferencedLabelsDedup(last) == Dedup(last.labels)

\* labels.iter().map(AsRef::as_ref).collect()
ReferencedLabels(last) == last.labels

\* iter.peek() is Some(next) while block k is current
HasNext(blocks, k) == k < Len(blocks)

\* one iteration of the while loop of get_edges on block k
EdgesOf(succ, pred, blocks, k) ==
    LET current == blocks[k]
        current_label == current.label
    IN  IF current.instrs = <<>>
        THEN [successors |-> succ, predecessors |-> pred]
        ELSE LET last == current.instrs[Len(current.instrs)]
             IN  IF is_terminator(last)
                 THEN [successors |->
                           Insert(succ, current_label, ReferencedLabels(last)),
                       predecessors |->
                           PushAll(pred, ReferencedLabels(last), current_label)]
                 ELSE IF HasNext(blocks, k)
                      THEN [successors |->
                                Insert(succ, current_label,
                                       <<blocks[k + 1].label>>),
                            predecessors |->
                                EntryPush(pred, blocks[k + 1].label,
                                          current_label)]
                      ELSE [successors |-> succ, predecessors |-> pred]

\* ------------------------------------------------------------------ states
Init ==
    /\ name \in FnNames
    /\ instrs \in SeqsUpTo(Codes, MaxLen)
    /\ pc = "partition"
    /\ i = 1
    /\ bb = BasicBlock("entry", <<>>)
    /\ basic_blocks = <<>>
    /\ j = 1
    /\ successors = EmptyMap
    /\ predecessors = EmptyMap

\* while let Some(current) = iter.next(), current.is_label()
PartitionLabel ==
    /\ pc = "partition"
    /\ i <= Len(instrs)
    /\ is_label(instrs[i])
    /\ bb' = [bb EXCEPT !.label = get_label(instrs[i])]
    /\ i' = i + 1
    /\ UNCHANGED <<name, instrs, pc, basic_blocks, j, successors, predecessors>>

\* while let Some(current) = iter.next(), the else branch
PartitionInstr ==
    /\ pc = "partition"
    /\ i <= Len(instrs)
    /\ ~is_label(instrs[i])
    /\ LET pushed == [bb EXCEPT !.instrs = Append(@, instrs[i])]
           flush == EndOfBlock(instrs, i)
           blocks1 == IF flush THEN Append(basic_blocks, pushed)
                      ELSE basic_blocks
           bb1 == IF flush THEN [pushed EXCEPT !.instrs = <<>>] ELSE pushed
       IN  /\ basic_blocks' = blocks1
           /\ bb' = IF LabelMissing(instrs, i)
                    THEN [bb1 EXCEPT !.label = SynthLabel(name, Len(blocks1))]
                    ELSE bb1
    /\ i' = i + 1
    /\ UNCHANGED <<name, instrs, pc, j, successors, predecessors>>

\* the iterator is exhausted: get_basic_blocks returns, get_edges starts
PartitionReturn ==
    /\ pc = "partition"
    /\ i > Len(instrs)
    /\ basic_blocks' = ReturnedBlocks(basic_blocks, bb)
    /\ pc' = "edges"
    /\ j' = 1
    /\ successors' = EmptyMap
    /\ predecessors' = EmptyMap
    /\ UNCHANGED <<name, instrs, i, bb>>

\* one iteration of get_edges
EdgesStep ==
    /\ pc = "edges"
    /\ j <= Len(basic_blocks)
    /\ LET r == EdgesOf(successors, predecessors, basic_blocks, j)
       IN  /\ successors' = r.successors
           /\ predecessors' = r.predecessors
    /\ j' = j + 1
    /\ UNCHANGED <<name, instrs, pc, i, bb, basic_blocks>>

\* get_edges returns (successors, predecessors)
EdgesReturn ==
    /\ pc = "edges"
    /\ j > Len(basic_blocks)
    /\ pc' = "done"
    /\ UNCHANGED <<name, instrs, i, bb, basic_blocks, j, successors, predecessors>>

Next ==
    \/ PartitionLabel
    \/ PartitionInstr
    \/ PartitionReturn
    \/ EdgesStep
    \/ EdgesReturn

Spec == Init /\ [][Next]_vars

\* ---------------------------------------- get_edges on hand-built blocks
\* instruction lists of the blocks handed to get_edges directly
BlockBodies ==
    { <<>>,
      <<Effect("nop", <<>>)>>,
      <<Value("add", <<>>), Effect("jmp", <<"a">>)>>,
      <<Effect("br", <<"x", "a", "x">>)>>,
      <<Effect("nop", <<>>), Value("add", <<>>)>> }

Blocks == {BasicBlock(l, b) : l \in LabelTexts, b \in BlockBodies}

InitEdges ==
    /\ name \in FnNames
    /\ instrs = <<>>
    /\ pc = "edges"
    /\ i = 1
    /\ bb = BasicBlock("entry", <<>>)
    /\ basic_blocks \in SeqsUpTo(Blocks, MaxBlocks)
    /\ j = 1
    /\ successors = EmptyMap
    /\ predecessors = EmptyMap

NextEdges ==
    \/ EdgesStep
    \/ EdgesReturn

SpecEdges == InitEdges /\ [][NextEdges]_vars

\* ------------------------------------------------------- claim vocabulary
Range(s) == {s[k] : k \in DOMAIN s}

RECURSIVE Flatten(_)
\* the instruction lists of the blocks, concatenated in block order
Flatten(blocks) ==
    IF blocks = <<>> THEN <<>> ELSE Head(blocks).instrs \o Flatten(Tail(blocks))

\* the items of s that are not Label items, in order
WithoutLabels(s) == SelectSeq(s, LAMBDA c : c.kind # "Label")

\* jmp, br or ret
EndsControl(c) == c.kind = "Effect" /\ c.op \in {"jmp", "br", "ret"}

\* get_basic_blocks has returned
Partitioned == pc \in {"edges", "done"}

\* get_edges has returned
EdgesBuilt == pc = "done"

DistinctLabels(blocks) ==
    \A m, n \in DOMAIN blocks : m # n => blocks[m].label # blocks[n].label

LastOf(s) == s[Len(s)]

\* every label text a map or a block mentions
Mentioned ==
    DOMAIN successors \cup DOMAIN predecessors
        \cup UNION {Range(successors[k]) : k \in DOMAIN successors}
        \cup UNION {Range(predecessors[k]) : k \in DOMAIN predecessors}
        \cup {basic_blocks[k].label : k \in DOMAIN basic_blocks}

\* label a is the source of no edge in either map
NoEdgeFrom(a) ==
    /\ Get(successors, a) = <<>>
    /\ \A b \in Mentioned : a \notin Range(Get(predecessors, b))

\* C1: partition completeness - once get_basic_blocks has returned, the
\* blocks' instruction lists concatenated in block order are exactly the
\* function's instrs with the Label items removed.
C1_PartitionComplete ==
    Partitioned => Flatten(basic_blocks) = WithoutLabels(instrs)

\* a function that starts with a label, has two labels in a row, ends with a
\* label and was cut into blocks
C1_Witness ==
    /\ Partitioned
    /\ Len(instrs) = 4
    /\ instrs[1].kind = "Label"
    /\ instrs[2].kind # "Label"
    /\ instrs[3].kind = "Label"
    /\ instrs[4].kind = "Label"
    /\ Len(basic_blocks) = 1

\* C2: successor/predecessor duality - after get_edges, B is in successors[A]
\* iff A is in predecessors[B], a missing key read as the empty list.
C2_Duality ==
    EdgesBuilt =>
        \A a, b \in Mentioned :
            (b \in Range(Get(successors, a))) <=> (a \in Range(Get(predecessors, b)))

\* C3: label uniqueness - no two blocks returned by get_basic_blocks have the
\* same label.
C3_LabelsUnique == Partitioned => DistinctLabels(basic_blocks)

\* C4 as stated: a trailing Label yields a final block that carries the label
\* and has an empty instruction list.
C4_TrailingLabelBlock ==
    (Partitioned /\ instrs # <<>> /\ LastOf(instrs).kind = "Label") =>
        /\ basic_blocks # <<>>
        /\ LastOf(basic_blocks).label = LastOf(instrs).label
        /\ LastOf(basic_blocks).instrs = <<>>

\* C4 amended: a trailing Label yields no block - no returned block has an
\* empty instruction list, the last returned block (if any) ends with the
\* function's last instruction, and the label is left on the pending block.
C4_TrailingLabelDropped ==
    (Partitioned /\ instrs # <<>> /\ LastOf(instrs).kind = "Label") =>
        /\ \A k \in DOMAIN basic_blocks : basic_blocks[k].instrs # <<>>
        /\ (basic_blocks = <<>>) <=> (WithoutLabels(instrs) = <<>>)
        /\ basic_blocks # <<>> =>
               LastOf(LastOf(basic_blocks).instrs) = LastOf(WithoutLabels(instrs))
        /\ bb = [label |-> LastOf(instrs).label, instrs |-> <<>>]

\* an instruction followed by a trailing label whose text no block carries
C4_Witness ==
    /\ EdgesBuilt
    /\ Len(instrs) >= 2
    /\ LastOf(instrs).kind = "Label"
    /\ instrs[Len(instrs) - 1].kind # "Label"
    /\ basic_blocks # <<>>
    /\ \A k \in DOMAIN basic_blocks : basic_blocks[k].label # LastOf(instrs).label

\* the instruction consumed last was a terminator that no Label follows: the
\* partitioner has just flushed a block and named the pending one
JustSynthesized ==
    /\ i >= 2
    /\ i - 1 <= Len(instrs)
    /\ EndsControl(instrs[i - 1])
    /\ ~(i <= Len(instrs) /\ instrs[i].kind = "Label")

\* C5 as stated: the synthesized label carries the number of blocks flushed
\* before this flush (the count before the flushed block was pushed).
C5_CountBeforePush ==
    JustSynthesized =>
        bb.label = name \o "_bb" \o ToString(Len(basic_blocks) - 1)

\* C5 amended: the synthesized label carries the number of blocks flushed so
\* far including the block just flushed (the count after the push), which is
\* the 0-based index the pending block would take in the output.
C5_CountAfterPush ==
    JustSynthesized =>
        /\ bb.instrs = <<>>
        /\ bb.label = name \o "_bb" \o ToString(Len(basic_blocks))

\* the second terminator of a function has been flushed and another
\* instruction follows it
C5_Witness ==
    /\ pc = "partition"
    /\ JustSynthesized
    /\ i <= Len(instrs)
    /\ Len(basic_blocks) = 2
    /\ bb.label = "f_bb2"

\* C6: a block whose last instruction is a ret is the source of no edge, even
\* when the ret's labels field is non-empty.
C6_RetNoEdges ==
    EdgesBuilt =>
        \A k \in DOMAIN basic_blocks :
            (basic_blocks[k].instrs # <<>>
                /\ LastOf(basic_blocks[k].instrs).kind = "Effect"
                /\ LastOf(basic_blocks[k].instrs).op = "ret")
            => NoEdgeFrom(basic_blocks[k].label)

\* C7: for a block list with pairwise distinct labels, get_edges gives each
\* block exactly: its br/jmp labels list as written; else, without a
\* terminator and with a next block, the next block's label alone; and no
\* outgoing edge when it is empty or is the last block without a terminator.
C7_SuccessorConstruction ==
    (EdgesBuilt /\ DistinctLabels(basic_blocks)) =>
        \A k \in DOMAIN basic_blocks :
            LET b == basic_blocks[k]
            IN  IF b.instrs = <<>>
                THEN b.label \notin DOMAIN successors /\ NoEdgeFrom(b.label)
                ELSE IF LastOf(b.instrs).kind = "Effect"
                        /\ LastOf(b.instrs).op \in {"br", "jmp"}
                THEN /\ b.label \in DOMAIN successors
                     /\ successors[b.label] = LastOf(b.instrs).labels
                ELSE IF EndsControl(LastOf(b.instrs))
                THEN TRUE
                ELSE IF k < Len(basic_blocks)
                THEN /\ b.label \in DOMAIN successors
                     /\ successors[b.label] = <<basic_blocks[k + 1].label>>
                ELSE b.label \notin DOMAIN successors /\ NoEdgeFrom(b.label)

\* three distinctly labelled blocks: one falling through to the next, one
\* without instructions, one ending in a br with a repeated and an unknown
\* target
C7_Witness ==
    /\ EdgesBuilt
    /\ Len(basic_blocks) = 3
    /\ DistinctLabels(basic_blocks)
    /\ \E k \in 1..2 :
           /\ basic_blocks[k].instrs # <<>>
           /\ ~EndsControl(LastOf(basic_blocks[k].instrs))
           /\ Get(successors, basic_blocks[k].label) = <<basic_blocks[k + 1].label>>
    /\ \E k \in 1..3 : basic_blocks[k].instrs = <<>>
    /\ \E k \in 1..3 :
           /\ basic_blocks[k].instrs # <<>>
           /\ LastOf(basic_blocks[k].instrs).op = "br"
           /\ Get(successors, basic_blocks[k].label) = <<"x", "a", "x">>

\* C8: terminator-closure - every block but the last either ends in a
\* terminator or has the next block's label among its successors.
C8_TerminatorClosure ==
    EdgesBuilt =>
        \A k \in DOMAIN basic_blocks :
            k < Len(basic_blocks) =>
                \/ (basic_blocks[k].instrs # <<>>
                       /\ EndsControl(LastOf(basic_blocks[k].instrs)))
                \/ basic_blocks[k + 1].label
                       \in Range(Get(successors, basic_blocks[k].label))

\* the function ends with a jmp (no Label can follow the last item)
EndsWithJmp ==
    /\ instrs # <<>>
    /\ LastOf(instrs).kind = "Effect"
    /\ LastOf(instrs).op = "jmp"

\* C9 as stated: after the block holding the final jmp a further block with
\* the synthesized label and zero instructions is returned, with no outgoing
\* edge; the single-jmp function yields two blocks, the second "<fn>_bb1".
C9_EmptyBlockAfterJmp ==
    (EdgesBuilt /\ EndsWithJmp) =>
        /\ Len(basic_blocks) >= 2
        /\ LastOf(basic_blocks).instrs = <<>>
        /\ LastOf(basic_blocks).label \notin DOMAIN successors
        /\ Len(instrs) = 1 =>
               /\ Len(basic_blocks) = 2
               /\ basic_blocks[2].label = name \o "_bb1"

\* C9 amended: the block holding the final jmp is the last block returned;
\* the synthesized label is given to the pending block, which holds zero
\* instructions and is never returned; the single-jmp function yields one
\* block, "entry", whose successors are the jmp's labels.
C9_NoBlockAfterJmp ==
    (EdgesBuilt /\ EndsWithJmp) =>
        /\ basic_blocks # <<>>
        /\ LastOf(basic_blocks).instrs # <<>>
        /\ LastOf(LastOf(basic_blocks).instrs) = LastOf(instrs)
        /\ bb = [label |-> name \o "_bb" \o ToString(Len(basic_blocks)),
                 instrs |-> <<>>]
        /\ Len(instrs) = 1 =>
               /\ Len(basic_blocks) = 1
               /\ basic_blocks[1].label = "entry"
               /\ bb.label = name \o "_bb1"
               /\ successors = [a \in {"entry"} |-> LastOf(instrs).labels]

\* the function is the single item jmp "a" and both passes have run
C9_Witness ==
    /\ EdgesBuilt
    /\ EndsWithJmp
    /\ Len(instrs) = 1
    /\ Len(basic_blocks) = 1
    /\ bb.label = "f_bb1"

\* C10: block shape - every returned block holds at least one instruction,
\* no Label item, and no terminator before its last instruction; a function
\* without instructions (empty, or Label items only) yields zero blocks.
C10_BlockShape ==
    Partitioned =>
        /\ \A k \in DOMAIN basic_blocks :
               LET is == basic_blocks[k].instrs
               IN  /\ Len(is) >= 1
                   /\ \A n \in DOMAIN is : is[n].kind # "Label"
                   /\ \A n \in DOMAIN is : n < Len(is) => ~EndsControl(is[n])
        /\ WithoutLabels(instrs) = <<>> => basic_blocks = <<>>

\* a block of two instructions ending in a terminator, followed by another
\* block
C10_Witness ==
    /\ Partitioned
    /\ Len(basic_blocks) = 2
    /\ Len(basic_blocks[1].instrs) = 2
    /\ EndsControl(basic_blocks[1].instrs[2])

\* a function made of Label items only yields zero blocks
C10_WitnessLabelsOnly ==
    /\ Partitioned
    /\ Len(instrs) = 2
    /\ WithoutLabels(instrs) = <<>>
    /\ basic_blocks = <<>>

====
